---- MODULE Spec2Model ----
(***************************************************************************)
(* Lineage graph of visualizer.py: DAGNode, SimplifiedDAG and the main     *)
(* loop that feeds process_ast(ast) into SimplifiedDAG.insert.             *)
(*                                                                         *)
(* Python objects live in an arena: `nodes` is the sequence of every       *)
(* DAGNode constructed so far and a node object is its index in it, so     *)
(* object identity (`is`, list.remove, `in` on lists of nodes) is index    *)
(* equality, and a placeholder that insert discards stays in the arena,    *)
(* unreferenced.                                                           *)
(***************************************************************************)
EXTENDS Integers, Sequences, FiniteSets, TLC

VARIABLES nodes, trees, next_id, stmts, colors, pc, calls, overlapped

vars == <<nodes, trees, next_id, stmts, colors, pc, calls, overlapped>>

(* ------------------------------ bounds --------------------------------- *)

\* DAGNode objects constructed in one run (statement nodes and placeholders)
MaxNodes == 5

\* table names that occur in the input
Names == {"A", "B", "C"}

\* "Select#" + short_hash(ast) of the bare queries that occur in the input
SelectNames == {"Select#a1b2c3"}

\* names used when DAGNodes are built by hand, CTE kinds included
ManualNames == {"A", "B"}

\* table names of the rendered runs, one of them schema-qualified
QualifiedNames == {"A", "B", "S.A"}

\* ast.this.name.upper() of the CREATE statements of the rendered runs: the
\* name of the created table without its schema, so it holds a dot only
\* when the identifier is quoted ("S.A")
CreatedNames == {"A", "S.A"}

\* table names and created names of the runs whose insert calls overlap
CallNames == {"A", "B"}

CallCreatedNames == {"B"}

\* the callers of insert when the calls are not serialized
Threads == {"t1", "t2"}

\* the [colors] section of the configuration file: class name -> classDef
StyleConfigs == {<<>>, [class_nm \in {"s"} |-> "fill:#B5E2B5,stroke:#666666"]}

(* ------------------------------ DAGNode -------------------------------- *)

NodeType == {"CTE", "Table", "Select"}

\* Python None as a node id
NoId == -1

\* Python None as a node reference (arena indices start at 1)
NoNode == 0

\* Python None as a color
NoColor == "None"

DAGNode(fqn, node_t) ==
    [name |-> fqn, node_t |-> node_t, sources |-> <<>>, slen |-> 0,
     id |-> NoId, color |-> NoColor]

add_source(node, source) ==
    [node EXCEPT !.sources = Append(@, source), !.slen = @ + 1]

swap_source_dropped(node, idx, source) == node

swap_source_first(node, idx, source) ==
    [node EXCEPT !.sources[1] = source]

swap_source(node, idx, source) ==
    [node EXCEPT !.sources[idx] = source]

\* the depth-first walk shared by DAGNode.__iter__ and iter_deep: each
\* element of the list is yielded, then everything below it
RECURSIVE Walk(_, _)
Walk(ns, list) ==
    IF list = <<>> THEN <<>>
    ELSE <<Head(list)>> \o Walk(ns, ns[Head(list)].sources) \o Walk(ns, Tail(list))

\* DAGNode.__iter__ of node n
iter(ns, n) == Walk(ns, ns[n].sources)

\* DAGNode.pairs of node n
pairs(ns, n) == [i \in 1..Len(ns[n].sources) |-> <<ns[n].sources[i], n>>]

(* ---------------------------- SimplifiedDAG ---------------------------- *)
\* A graph value G is [nodes, trees, next_id].

Range(s) == {s[i] : i \in 1..Len(s)}

iter_deep(G) == Walk(G.nodes, G.trees)

assign_id_same_counter(G, node) ==
    [G EXCEPT !.nodes[node].id = G.next_id]

assign_id(G, node) ==
    [G EXCEPT !.nodes[node].id = G.next_id, !.next_id = @ + 1]

add_node(G, node) ==
    LET H == assign_id(G, node)
    IN  [H EXCEPT !.trees = Append(@, node)]

\* list.remove: drops the first occurrence
RECURSIVE RemoveFirst(_, _)
RemoveFirst(list, x) ==
    IF list = <<>> THEN <<>>
    ELSE IF Head(list) = x THEN Tail(list)
    ELSE <<Head(list)>> \o RemoveFirst(Tail(list), x)

rem_node_kept(G, node) == G

rem_node(G, node) == [G EXCEPT !.trees = RemoveFirst(@, node)]

IsKnown_any_kind(G, child, branch) ==
    G.nodes[child].name = G.nodes[branch].name

\* the test of insert's inner loop
IsKnown(G, child, branch) ==
    /\ G.nodes[child].name = G.nodes[branch].name
    /\ G.nodes[branch].node_t # "CTE"

\* insert's inner loop: the first node of iter_deep that passes the test
RECURSIVE FirstKnown(_, _, _)
FirstKnown(G, child, walk) ==
    IF walk = <<>> THEN NoNode
    ELSE IF IsKnown(G, child, Head(walk)) THEN Head(walk)
    ELSE FirstKnown(G, child, Tail(walk))

known_of_or_parent(G, child) ==
    LET known == FirstKnown(G, child, iter_deep(G))
        owner == {p \in 1..Len(G.nodes) :
                    /\ child \in Range(G.nodes[p].sources)
                    /\ IsKnown(G, child, p)}
    IN  IF known # NoNode THEN known
        ELSE IF owner # {} THEN CHOOSE p \in owner : TRUE
        ELSE NoNode

known_of(G, child) == FirstKnown(G, child, iter_deep(G))

insert_child_ids_first(G, parent, i) ==
    LET child == G.nodes[parent].sources[i]
        A == assign_id(G, child)
        known == known_of(G, child)
    IN  IF known # NoNode
        THEN LET H == IF known \in Range(A.trees) THEN rem_node(A, known) ELSE A
             IN  [H EXCEPT !.nodes[parent] = swap_source(@, i, known)]
        ELSE A

\* one round of insert's outer loop, for parent.sources[i]
insert_child(G, parent, i) ==
    LET child == G.nodes[parent].sources[i]
        known == known_of(G, child)
    IN  IF known # NoNode
        THEN LET H == IF known \in Range(G.trees) THEN rem_node(G, known) ELSE G
             IN  [H EXCEPT !.nodes[parent] = swap_source(@, i, known)]
        ELSE assign_id(G, child)

RECURSIVE insert_loop(_, _, _)
insert_loop(G, parent, i) ==
    IF i > Len(G.nodes[parent].sources) THEN G
    ELSE insert_loop(insert_child(G, parent, i), parent, i + 1)

insert(G, parent) == add_node(insert_loop(G, parent, 1), parent)

end_nodes(G) == G.trees

\* root_nodes: the nodes of the walk with slen = 0, first of each name
RECURSIVE RootScan(_, _, _)
RootScan(ns, walk, seen) ==
    IF walk = <<>> THEN <<>>
    ELSE LET src == Head(walk)
         IN  IF ns[src].slen = 0 /\ ns[src].name \notin seen
             THEN <<src>> \o RootScan(ns, Tail(walk), seen \cup {ns[src].name})
             ELSE RootScan(ns, Tail(walk), seen)

root_nodes(G) == RootScan(G.nodes, iter_deep(G), {})

\* unq_nodes: `node.name not in seen` asks whether a str equals one of the
\* DAGNode objects of the list `seen`; DAGNode defines no __eq__, so no
\* element ever equals the name and every node of the walk is appended.
StrEqNode(name, node) == FALSE

NameInSeen(ns, name, seen) == \E i \in 1..Len(seen) : StrEqNode(name, seen[i])

RECURSIVE UnqScan(_, _, _)
UnqScan(ns, walk, seen) ==
    IF walk = <<>> THEN seen
    ELSE IF ~NameInSeen(ns, ns[Head(walk)].name, seen)
         THEN UnqScan(ns, Tail(walk), Append(seen, Head(walk)))
         ELSE UnqScan(ns, Tail(walk), seen)

unq_nodes(G) == UnqScan(G.nodes, iter_deep(G), <<>>)

\* SimplifiedDAG.colors after __init__
InitColors ==
    [class_nm \in {"srcNode", "cteNode", "intNode", "endNode"} |->
        CASE class_nm = "srcNode" -> "fill:#EEEEEE,stroke:#666666"
          [] class_nm = "cteNode" -> "fill:#7D858D,stroke:#666666"
          [] class_nm = "intNode" -> "fill:#AACCD7,stroke:#666666"
          [] class_nm = "endNode" -> "fill:#FDE1A7,stroke:#666666"]

\* dict.update: the entries of new replace or extend those of styles
add_class_style(styles, new) ==
    [class_nm \in DOMAIN styles \cup DOMAIN new |->
        IF class_nm \in DOMAIN new THEN new[class_nm] ELSE styles[class_nm]]

\* str.split('.') and str.lower() on the names of the model
split(name) == IF name = "S.A" THEN <<"S", "A">> ELSE <<name>>

lower(s) == IF s = "S" THEN "s" ELSE s

default_color_rule(node) ==
    LET path == split(node.name)
    IN  IF Len(path) > 1 THEN lower(path[1]) ELSE NoColor

\* the callable that __main__ hands to set_node_color_rule
callback(node) == default_color_rule(node)

\* the loop of set_node_color_rule runs over self.trees
set_node_color_rule(G) ==
    [G EXCEPT !.nodes =
        [n \in DOMAIN G.nodes |->
            IF n \in Range(G.trees)
            THEN [G.nodes[n] EXCEPT !.color = callback(G.nodes[n])]
            ELSE G.nodes[n]]]

default_sort_rule(node) ==
    LET color == IF node.color # NoColor THEN node.color ELSE ""
    IN  <<node.slen, color, node.name>>

\* the callable that __main__ hands to sort
key(node) == default_sort_rule(node)

\* str < str on the strings of the model, by code point
StrOrder == <<"", "A", "B", "S.A", "Select#a1b2c3", "s">>

StrLess(a, b) ==
    \E i, j \in 1..Len(StrOrder) : i < j /\ StrOrder[i] = a /\ StrOrder[j] = b

\* tuple < tuple for keys (int, str, str)
KeyLess(a, b) ==
    \/ a[1] < b[1]
    \/ a[1] = b[1] /\ StrLess(a[2], b[2])
    \/ a[1] = b[1] /\ a[2] = b[2] /\ StrLess(a[3], b[3])

\* list.sort(key=key) is stable: each element goes behind the elements
\* already placed whose key is not greater. An item is <<key, element>>.
RECURSIVE Place(_, _)
Place(sorted, item) ==
    IF sorted = <<>> THEN <<item>>
    ELSE IF KeyLess(item[1], Head(sorted)[1]) THEN <<item>> \o sorted
    ELSE <<Head(sorted)>> \o Place(Tail(sorted), item)

RECURSIVE SortItems(_, _)
SortItems(items, sorted) ==
    IF items = <<>> THEN sorted
    ELSE SortItems(Tail(items), Place(sorted, Head(items)))

list_sort(ns, list) ==
    LET items == [i \in 1..Len(list) |-> <<key(ns[list[i]]), list[i]>>]
        sorted == SortItems(items, <<>>)
    IN  [i \in 1..Len(sorted) |-> sorted[i][2]]

\* DAGNode.sort
node_sort(ns, n) == [ns[n] EXCEPT !.sources = list_sort(ns, @)]

\* SimplifiedDAG.sort: the roots, then branch.sort for each root
sort(G) ==
    [G EXCEPT !.trees = list_sort(G.nodes, @),
              !.nodes = [n \in DOMAIN G.nodes |->
                            IF n \in Range(G.trees)
                            THEN node_sort(G.nodes, n)
                            ELSE G.nodes[n]]]

(* -------------------------------- mm ----------------------------------- *)

VertexLine(ns, b) == [kind |-> "vertex", id |-> ns[b].id, name |-> ns[b].name]

EdgeLine(ns, pr) == [kind |-> "edge", src |-> ns[pr[1]].id, tgt |-> ns[pr[2]].id]

\* the vertex line of each node of unq_nodes, followed by its edge lines
RECURSIVE mm_lines_of(_, _)
mm_lines_of(ns, unq) ==
    IF unq = <<>> THEN <<>>
    ELSE LET branch == Head(unq)
             prs == pairs(ns, branch)
         IN  <<VertexLine(ns, branch)>>
             \o [i \in 1..Len(prs) |-> EdgeLine(ns, prs[i])]
             \o mm_lines_of(ns, Tail(unq))

mm_lines(G) == mm_lines_of(G.nodes, unq_nodes(G))

class_of_cte_first(ns, roots, ends, branch) ==
    LET n == ns[branch]
    IN  IF n.node_t = "CTE" THEN "cteNode"
        ELSE IF n.color \notin {NoColor, ""} THEN n.color
        ELSE IF branch \in Range(roots) THEN "srcNode"
        ELSE IF branch \in Range(ends) THEN "endNode"
        ELSE "intNode"

\* the if/elif chain of mm: the node_class key a node's id is appended to;
\* roots and ends are the lists root_nodes and end_nodes that mm builds
\* before its loop
class_of(ns, roots, ends, branch) ==
    LET n == ns[branch]
    IN  IF n.color \notin {NoColor, ""} THEN n.color
        ELSE IF n.node_t = "CTE" THEN "cteNode"
        ELSE IF branch \in Range(roots) THEN "srcNode"
        ELSE IF branch \in Range(ends) THEN "endNode"
        ELSE "intNode"

\* the class of each node of unq, in the order of unq
classes(G, unq) ==
    LET roots == root_nodes(G)
        ends == end_nodes(G)
    IN  [i \in 1..Len(unq) |-> class_of(G.nodes, roots, ends, unq[i])]

\* the ids appended to node_class[class_nm], in the order of unq
RECURSIVE ClassIds(_, _, _, _)
ClassIds(ns, unq, cls, class_nm) ==
    IF unq = <<>> THEN <<>>
    ELSE (IF Head(cls) = class_nm THEN <<ns[Head(unq)].id>> ELSE <<>>)
         \o ClassIds(ns, Tail(unq), Tail(cls), class_nm)

\* node_class at the end of mm's loop over unq_nodes
node_class(G) ==
    LET unq == unq_nodes(G)
        cls == classes(G, unq)
        keys == {"srcNode", "cteNode", "intNode", "endNode"} \cup Range(cls)
    IN  [class_nm \in keys |-> ClassIds(G.nodes, unq, cls, class_nm)]

\* the keys of node_class in dict order: the four built-in classes, then
\* each color at the first node of unq_nodes that carries it
RECURSIVE ClassKeys(_, _)
ClassKeys(cls, keys) ==
    IF cls = <<>> THEN keys
    ELSE ClassKeys(Tail(cls),
                   IF Head(cls) \in Range(keys) THEN keys ELSE Append(keys, Head(cls)))

class_keys(G) ==
    ClassKeys(classes(G, unq_nodes(G)), <<"srcNode", "cteNode", "intNode", "endNode">>)

\* self.colors.get(class_nm)
colors_get(styles, class_nm) ==
    IF class_nm \in DOMAIN styles THEN styles[class_nm] ELSE NoColor

\* `if class_def:`
has_class_def(styles, class_nm) == colors_get(styles, class_nm) \notin {NoColor, ""}

\* `if nodes:`, on the items of node_class
has_nodes(nc, class_nm) == nc[class_nm] # <<>>

ClassDefLine(styles, class_nm) ==
    [kind |-> "classDef", name |-> class_nm, style |-> colors_get(styles, class_nm)]

ClassLine(nc, class_nm) ==
    [kind |-> "class", ids |-> nc[class_nm], name |-> class_nm]

mm_class_lines_styled_only(G, styles) ==
    LET keys == class_keys(G)
        nc == node_class(G)
        Def(class_nm) == has_class_def(styles, class_nm)
        Use(class_nm) == has_nodes(nc, class_nm) /\ has_class_def(styles, class_nm)
        defs == SelectSeq(keys, Def)
        uses == SelectSeq(keys, Use)
    IN  [i \in 1..Len(defs) |-> ClassDefLine(styles, defs[i])]
        \o [i \in 1..Len(uses) |-> ClassLine(nc, uses[i])]

\* the classDef lines of mm, then its class lines
mm_class_lines(G, styles) ==
    LET keys == class_keys(G)
        nc == node_class(G)
        Def(class_nm) == has_class_def(styles, class_nm)
        Use(class_nm) == has_nodes(nc, class_nm)
        defs == SelectSeq(keys, Def)
        uses == SelectSeq(keys, Use)
    IN  [i \in 1..Len(defs) |-> ClassDefLine(styles, defs[i])]
        \o [i \in 1..Len(uses) |-> ClassLine(nc, uses[i])]

(* --------------------------- statements -------------------------------- *)
\* An ast is [create, this, tables]: is_create(ast), the name find_statement
\* gives it, and the table names find_tables meets, in the order the set
\* of placeholders is iterated. find_tables collects DAGNode objects in a
\* set; DAGNode defines no __hash__, so two references to one table are two
\* members and a name can occur twice.

SeqsUpTo(S, n) == UNION {[1..k -> S] : k \in 0..n}

find_statement(ast) ==
    IF ast.create THEN DAGNode(ast.this, "Table") ELSE DAGNode(ast.this, "Select")

find_tables(ast) == [i \in 1..Len(ast.tables) |-> DAGNode(ast.tables[i], "Table")]

\* process_ast: the statement node at arena index p, its placeholders after it
process_ast(ns, ast) ==
    LET p == Len(ns) + 1
        tables == find_tables(ast)
        RECURSIVE Add(_, _)
        Add(node, i) == IF i > Len(tables) THEN node
                        ELSE Add(add_source(node, p + i), i + 1)
    IN  ns \o <<Add(find_statement(ast), 1)>> \o tables

Asts(room) ==
    {[create |-> TRUE, this |-> n, tables |-> t] :
        n \in Names, t \in SeqsUpTo(Names, room - 1)}
    \cup
    {[create |-> FALSE, this |-> n, tables |-> t] :
        n \in SelectNames, t \in SeqsUpTo(Names, room - 1)}

Graph == [nodes |-> nodes, trees |-> trees, next_id |-> next_id]

\* the frame of a caller that is not inside insert
NoCall == [step |-> "idle", parent |-> NoNode, i |-> 0, known |-> NoNode]

\* pc is the position of __main__: in the loop over ast_list ("insert"),
\* behind add_class_style ("styled"), behind set_node_color_rule
\* ("colored"), behind sort ("sorted")
Init ==
    /\ nodes = <<>>
    /\ trees = <<>>
    /\ next_id = 0
    /\ stmts = <<>>
    /\ colors = InitColors
    /\ pc = "insert"
    /\ calls = [t \in Threads |-> NoCall]
    /\ overlapped = FALSE

\* one round of the main loop: node = process_ast(ast); dag.insert(node)
ProcessStatement ==
    /\ Len(nodes) < MaxNodes
    /\ \E ast \in Asts(MaxNodes - Len(nodes)) :
        LET p == Len(nodes) + 1
            G == insert([Graph EXCEPT !.nodes = process_ast(nodes, ast)], p)
        IN  /\ nodes' = G.nodes
            /\ trees' = G.trees
            /\ next_id' = G.next_id
            /\ stmts' = Append(stmts, [node |-> p, tables |-> ast.tables])
            /\ UNCHANGED <<colors, pc, calls, overlapped>>

Next == ProcessStatement

Spec == Init /\ [][Next]_vars

\* DAGNodes built by hand and handed to insert: any kind for the node and
\* for each of its sources
ManualKinds == {"Table", "CTE"}

ManualNodes == {[name |-> n, node_t |-> t] : n \in ManualNames, t \in ManualKinds}

manual_node(ns, spec, srcs) ==
    LET p == Len(ns) + 1
        RECURSIVE Add(_, _)
        Add(node, i) == IF i > Len(srcs) THEN node
                        ELSE Add(add_source(node, p + i), i + 1)
    IN  ns \o <<Add(DAGNode(spec.name, spec.node_t), 1)>>
           \o [i \in 1..Len(srcs) |-> DAGNode(srcs[i].name, srcs[i].node_t)]

InsertManual ==
    /\ Len(nodes) < MaxNodes
    /\ \E spec \in ManualNodes :
       \E srcs \in SeqsUpTo(ManualNodes, MaxNodes - Len(nodes) - 1) :
        LET p == Len(nodes) + 1
            G == insert([Graph EXCEPT !.nodes = manual_node(nodes, spec, srcs)], p)
        IN  /\ nodes' = G.nodes
            /\ trees' = G.trees
            /\ next_id' = G.next_id
            /\ stmts' = Append(stmts, [node |-> p,
                                       tables |-> [i \in 1..Len(srcs) |-> srcs[i].name]])
            /\ UNCHANGED <<colors, pc, calls, overlapped>>

NextManual == InsertManual

SpecManual == Init /\ [][NextManual]_vars

\* the statements of the rendered runs
QualifiedAsts(room) ==
    {[create |-> TRUE, this |-> n, tables |-> t] :
        n \in CreatedNames, t \in SeqsUpTo(QualifiedNames, room - 1)}
    \cup
    {[create |-> FALSE, this |-> n, tables |-> t] :
        n \in SelectNames, t \in SeqsUpTo(QualifiedNames, room - 1)}

\* one round of the main loop, on those statements
ProcessQualified ==
    /\ pc = "insert"
    /\ Len(nodes) < MaxNodes
    /\ \E ast \in QualifiedAsts(MaxNodes - Len(nodes)) :
        LET p == Len(nodes) + 1
            G == insert([Graph EXCEPT !.nodes = process_ast(nodes, ast)], p)
        IN  /\ nodes' = G.nodes
            /\ trees' = G.trees
            /\ next_id' = G.next_id
            /\ stmts' = Append(stmts, [node |-> p, tables |-> ast.tables])
            /\ UNCHANGED <<colors, pc, calls, overlapped>>

\* dag.add_class_style(colors)
AddClassStyle ==
    /\ pc = "insert"
    /\ \E cfg \in StyleConfigs : colors' = add_class_style(colors, cfg)
    /\ pc' = "styled"
    /\ UNCHANGED <<nodes, trees, next_id, stmts, calls, overlapped>>

\* dag.set_node_color_rule(default_color_rule)
SetNodeColorRule ==
    /\ pc = "styled"
    /\ nodes' = set_node_color_rule(Graph).nodes
    /\ pc' = "colored"
    /\ UNCHANGED <<trees, next_id, stmts, colors, calls, overlapped>>

\* dag.sort(default_sort_rule)
Sort ==
    /\ pc = "colored"
    /\ LET G == sort(Graph)
       IN  nodes' = G.nodes /\ trees' = G.trees
    /\ pc' = "sorted"
    /\ UNCHANGED <<next_id, stmts, colors, calls, overlapped>>

NextRender == ProcessQualified \/ AddClassStyle \/ SetNodeColorRule \/ Sort

SpecRender == Init /\ [][NextRender]_vars

\* hand-built nodes of the rendered runs: a plain table, a qualified
\* table and a CTE
StyledNodes ==
    {[name |-> "A", node_t |-> "Table"],
     [name |-> "S.A", node_t |-> "Table"],
     [name |-> "S.A", node_t |-> "CTE"]}

InsertStyled ==
    /\ pc = "insert"
    /\ Len(nodes) < MaxNodes
    /\ \E spec \in StyledNodes :
       \E srcs \in SeqsUpTo(StyledNodes, MaxNodes - Len(nodes) - 1) :
        LET p == Len(nodes) + 1
            G == insert([Graph EXCEPT !.nodes = manual_node(nodes, spec, srcs)], p)
        IN  /\ nodes' = G.nodes
            /\ trees' = G.trees
            /\ next_id' = G.next_id
            /\ stmts' = Append(stmts, [node |-> p,
                                       tables |-> [i \in 1..Len(srcs) |-> srcs[i].name]])
            /\ UNCHANGED <<colors, pc, calls, overlapped>>

NextRenderManual == InsertStyled \/ AddClassStyle \/ SetNodeColorRule \/ Sort

SpecRenderManual == Init /\ [][NextRenderManual]_vars

(* ---------------------- insert, one step at a time --------------------- *)
\* calls[t] is the frame of caller t inside insert: the step it is about
\* to take, its parent, the index i of the child at hand (from 1) and the
\* known node of that child. The steps are the lookup of one child (the
\* inner loop over iter_deep), the test `known in self.trees`, rem_node
\* followed by swap_source, assign_id of the child, and add_node.
\* swap_source writes the parent only, which no other caller can reach
\* before add_node, so it is taken together with the step before it.
\* overlapped records that some call began while another was in flight:
\* the runs that keep it FALSE are the serialized ones.

CallAsts(room) ==
    {[create |-> TRUE, this |-> n, tables |-> t] :
        n \in CallCreatedNames, t \in SeqsUpTo(CallNames, room - 1)}
    \cup
    {[create |-> FALSE, this |-> n, tables |-> t] :
        n \in SelectNames, t \in SeqsUpTo(CallNames, room - 1)}

InFlight(t) == calls[t].step \notin {"idle", "failed"}

\* the frame after child i is dealt with: the next child, or add_node
Advance(f) ==
    IF f.i < Len(nodes[f.parent].sources)
    THEN [f EXCEPT !.step = "lookup", !.i = @ + 1, !.known = NoNode]
    ELSE [f EXCEPT !.step = "add", !.known = NoNode]

\* node = process_ast(ast), and the entry into dag.insert(node)
Call(t) ==
    /\ calls[t].step = "idle"
    /\ Len(nodes) < MaxNodes
    /\ \E ast \in CallAsts(MaxNodes - Len(nodes)) :
        LET p == Len(nodes) + 1
        IN  /\ nodes' = process_ast(nodes, ast)
            /\ stmts' = Append(stmts, [node |-> p, tables |-> ast.tables])
            /\ calls' = [calls EXCEPT ![t] =
                            [step |-> IF ast.tables = <<>> THEN "add" ELSE "lookup",
                             parent |-> p, i |-> 1, known |-> NoNode]]
    /\ overlapped' = (overlapped \/ \E u \in Threads \ {t} : InFlight(u))
    /\ UNCHANGED <<trees, next_id, colors, pc>>

\* the inner loop of insert for child i
Lookup(t) ==
    /\ calls[t].step = "lookup"
    /\ LET f == calls[t]
           known == known_of(Graph, nodes[f.parent].sources[f.i])
       IN  calls' = [calls EXCEPT ![t] =
                        [f EXCEPT !.known = known,
                                  !.step = IF known # NoNode THEN "test" ELSE "assign"]]
    /\ UNCHANGED <<nodes, trees, next_id, stmts, colors, pc, overlapped>>

\* `if known in self.trees`; when it is false, swap_source follows
TestRoot(t) ==
    /\ calls[t].step = "test"
    /\ LET f == calls[t]
       IN  IF f.known \in Range(trees)
           THEN /\ calls' = [calls EXCEPT ![t].step = "remove"]
                /\ UNCHANGED nodes
           ELSE /\ nodes' = [nodes EXCEPT ![f.parent] = swap_source(@, f.i, f.known)]
                /\ calls' = [calls EXCEPT ![t] = Advance(f)]
    /\ UNCHANGED <<trees, next_id, stmts, colors, pc, overlapped>>

\* self.rem_node(known), then swap_source; list.remove raises ValueError
\* when known is no longer in the list, which ends the call
Remove(t) ==
    /\ calls[t].step = "remove"
    /\ LET f == calls[t]
       IN  IF f.known \in Range(trees)
           THEN /\ trees' = rem_node(Graph, f.known).trees
                /\ nodes' = [nodes EXCEPT ![f.parent] = swap_source(@, f.i, f.known)]
                /\ calls' = [calls EXCEPT ![t] = Advance(f)]
           ELSE /\ calls' = [calls EXCEPT ![t].step = "failed"]
                /\ UNCHANGED <<nodes, trees>>
    /\ UNCHANGED <<next_id, stmts, colors, pc, overlapped>>

\* self.assign_id(child)
AssignChild(t) ==
    /\ calls[t].step = "assign"
    /\ LET f == calls[t]
           G == assign_id(Graph, nodes[f.parent].sources[f.i])
       IN  /\ nodes' = G.nodes
           /\ next_id' = G.next_id
           /\ calls' = [calls EXCEPT ![t] = Advance(f)]
    /\ UNCHANGED <<trees, stmts, colors, pc, overlapped>>

\* self.add_node(parent), and the return of insert
AddParent(t) ==
    /\ calls[t].step = "add"
    /\ LET G == add_node(Graph, calls[t].parent)
       IN  /\ nodes' = G.nodes
           /\ trees' = G.trees
           /\ next_id' = G.next_id
    /\ calls' = [calls EXCEPT ![t] = NoCall]
    /\ UNCHANGED <<stmts, colors, pc, overlapped>>

NextCalls ==
    \E t \in Threads :
        \/ Call(t)
        \/ Lookup(t)
        \/ TestRoot(t)
        \/ Remove(t)
        \/ AssignChild(t)
        \/ AddParent(t)

SpecCalls == Init /\ [][NextCalls]_vars

(* ------------------------- vocabulary of the claims -------------------- *)

\* the nodes of the graph: everything the roots reach
Reach == Range(iter_deep(Graph))

\* the nodes that hold an id
Registered == {n \in 1..Len(nodes) : nodes[n].id # NoId}

NamedNodes(x) == {n \in Reach : nodes[n].name = x}

\* statement i: its node, its name, the names it reads, its placeholders
StmtNode(i) == stmts[i].node
Identity(i) == nodes[StmtNode(i)].name
Reads(i) == Range(stmts[i].tables)
Placeholder(i, j) == StmtNode(i) + j
SourcesOf(n) == Range(nodes[n].sources)

\* each statement lists a table name at most once, and never its own name
CleanStmt(i) ==
    /\ \A j, k \in 1..Len(stmts[i].tables) :
          stmts[i].tables[j] = stmts[i].tables[k] => j = k
    /\ Identity(i) \notin Reads(i)

CleanLog ==
    /\ \A i \in 1..Len(stmts) : CleanStmt(i)
    /\ \A i, j \in 1..Len(stmts) : Identity(i) = Identity(j) => i = j

(* -------------------------------- claims ------------------------------- *)

SameName(a, b) == nodes[a].name = nodes[b].name

NonCTE(n) == nodes[n].node_t # "CTE"

\* C1: after any sequence of inserts no two distinct non-CTE nodes reachable
\* from the roots have the same name; in particular, when a statement reads
\* X and a later statement has identity X, a single node named X is both
\* the source of the earlier statement and the node of the later one. The
\* first part is stated for the runs whose statements list each table once,
\* never themselves, and have distinct identities.
C1_OneNodePerName ==
    /\ CleanLog =>
         \A a, b \in Reach : (NonCTE(a) /\ NonCTE(b) /\ SameName(a, b)) => a = b
    /\ \A i, j \in 1..Len(stmts) :
         (CleanLog /\ i < j /\ Identity(j) \in Reads(i)) =>
            /\ {n \in NamedNodes(Identity(j)) : NonCTE(n)} = {StmtNode(j)}
            /\ StmtNode(j) \in SourcesOf(StmtNode(i))

\* C2: unq_nodes() returns every node reachable from the roots and no name
\* more than once, so a dependency shared by several consumers appears once.
\* Stated for the graphs in which every reachable node has a name of its own.
C2_UnqNodesOncePerName ==
    LET unq == unq_nodes(Graph)
    IN  (\A a, b \in Reach : SameName(a, b) => a = b) =>
           /\ Range(unq) = Reach
           /\ \A i, j \in 1..Len(unq) : SameName(unq[i], unq[j]) => i = j

\* C3: two inserted statements that both read table x, neither of them
\* having identity x, leave exactly one node named x: it is a source of
\* both statement nodes and the only node named x that received an id.
C3_SharedReadIsOneVertex ==
    \A x \in Names :
        ( /\ Len(stmts) = 2
          /\ CleanLog
          /\ x \in Reads(1) /\ x \in Reads(2)
          /\ x # Identity(1) /\ x # Identity(2) ) =>
            /\ Cardinality(NamedNodes(x)) = 1
            /\ \A n \in NamedNodes(x) :
                 n \in SourcesOf(StmtNode(1)) /\ n \in SourcesOf(StmtNode(2))
            /\ Cardinality({n \in Registered : nodes[n].name = x}) = 1

\* the nodes of the graph: reachable from the roots or holding an id
GraphNodes == Reach \cup Registered

IsSource(n) == \E m \in GraphNodes : n \in SourcesOf(m)

\* C4: end_nodes() is exactly the set of nodes of the graph that are a
\* source of no other node, and holds each of them once.
C4_RootsAreTheUnreferenced ==
    /\ Range(end_nodes(Graph)) = {n \in GraphNodes : ~IsSource(n)}
    /\ \A i, j \in 1..Len(trees) : trees[i] = trees[j] => i = j

\* a statement node that a later statement took as a source left the roots
C4_Witness ==
    \E i \in 1..Len(stmts) : StmtNode(i) \notin Range(trees) /\ IsSource(StmtNode(i))

\* the names the inserted statements declare, and the reference lineage
DeclaredNames ==
    {Identity(i) : i \in 1..Len(stmts)} \cup UNION {Reads(i) : i \in 1..Len(stmts)}

DeclaredEdges == {<<d, Identity(i)>> : i \in 1..Len(stmts), d \in Names} \cap
                 {<<d, x>> \in Names \X DeclaredNames :
                     \E i \in 1..Len(stmts) : Identity(i) = x /\ d \in Reads(i)}

GraphEdges == {<<nodes[s].name, nodes[n].name>> : <<s, n>> \in
                 {<<s, n>> \in Reach \X Reach : s \in SourcesOf(n)}}

NamesOf(list) == {nodes[list[i]].name : i \in 1..Len(list)}

\* every created name is inserted before any statement that reads it
DependencyOrder ==
    \A i, j \in 1..Len(stmts) : Identity(j) \in Reads(i) => j < i

\* C5: when statements are inserted in dependency order, each identity
\* once and none reading itself, the graph is the reference lineage graph:
\* one node per declared name, an edge d -> s exactly for each declared
\* dependency d of s, root_nodes() the names without dependencies and
\* end_nodes() the statements no other statement reads.
C5_IsReferenceLineage ==
    (CleanLog /\ DependencyOrder) =>
        /\ {nodes[n].name : n \in Reach} = DeclaredNames
        /\ \A x \in DeclaredNames : Cardinality(NamedNodes(x)) = 1
        /\ GraphEdges = DeclaredEdges
        /\ NamesOf(root_nodes(Graph)) =
             {x \in DeclaredNames :
                 \A i \in 1..Len(stmts) : Identity(i) = x => Reads(i) = {}}
        /\ NamesOf(end_nodes(Graph)) =
             {Identity(i) : i \in {k \in 1..Len(stmts) :
                 \A j \in 1..Len(stmts) : Identity(k) \notin Reads(j)}}

\* C6: every node of the graph with an empty sources list is yielded by
\* root_nodes() and, when it has no color and is no CTE, mm() puts its id
\* in srcNode and in neither endNode nor intNode. Stated for the runs
\* whose statements list each table once, never themselves, and have
\* distinct identities.
C6_EmptySourcesIsRoot ==
    \A n \in Reach :
        (CleanLog /\ nodes[n].sources = <<>>) =>
            /\ n \in Range(root_nodes(Graph))
            /\ (nodes[n].color \in {NoColor, ""} /\ NonCTE(n)) =>
                  /\ nodes[n].id \in Range(node_class(Graph)["srcNode"])
                  /\ nodes[n].id \notin Range(node_class(Graph)["endNode"])
                  /\ nodes[n].id \notin Range(node_class(Graph)["intNode"])

\* C7: in the text of mm() every id of an edge line has a vertex line before
\* that edge line, and ids and names correspond one to one in the vertex
\* lines.
C7_RenderComplete ==
    LET lines == mm_lines(Graph)
        Declared(k, id) ==
            \E j \in 1..(k - 1) : lines[j].kind = "vertex" /\ lines[j].id = id
        V == {k \in 1..Len(lines) : lines[k].kind = "vertex"}
    IN  /\ \A k \in 1..Len(lines) :
             lines[k].kind = "edge" =>
                Declared(k, lines[k].src) /\ Declared(k, lines[k].tgt)
        /\ \A j, k \in V : (lines[j].name = lines[k].name) <=> (lines[j].id = lines[k].id)

\* C8: a CTE-kind source of an inserted node is never replaced by an
\* existing node of the same name: it stays in the sources of its parent.
C8_CTESourceStays ==
    \A i \in 1..Len(stmts) :
        \A j \in 1..Len(stmts[i].tables) :
            nodes[Placeholder(i, j)].node_t = "CTE" =>
                nodes[StmtNode(i)].sources[j] = Placeholder(i, j)

\* C9: the known lookup of insert never resolves to a CTE-kind node. In
\* each insert, a placeholder whose name only CTE-kind nodes of the graph
\* carry stays in its parent's sources and takes a fresh id, and no CTE
\* node leaves the roots or becomes a source of the inserted node.
C9_Step ==
    LET p == Len(nodes) + 1
    IN  Len(nodes') > Len(nodes) =>
          /\ \A j \in 1..Len(nodes'[p].sources) :
               (\A n \in Reach : nodes[n].name = nodes'[p + j].name => ~NonCTE(n)) =>
                  /\ nodes'[p].sources[j] = p + j
                  /\ nodes'[p + j].id >= next_id
                  /\ nodes'[p + j].id < next_id'
          /\ \A c \in Reach :
               ~NonCTE(c) =>
                  /\ (c \in Range(trees) => c \in Range(trees'))
                  /\ c \notin Range(nodes'[p].sources)

C9_KnownIsNeverCTE == [][C9_Step]_vars

\* a Table placeholder was kept although a CTE of its name was in the graph
C9_Witness ==
    \E i \in 1..Len(stmts) : \E j \in 1..Len(stmts[i].tables) :
        /\ NonCTE(Placeholder(i, j))
        /\ nodes[StmtNode(i)].sources[j] = Placeholder(i, j)
        /\ nodes[Placeholder(i, j)].id # NoId
        /\ \E c \in Reach : /\ c < StmtNode(i)
                            /\ ~NonCTE(c)
                            /\ c \in Range(trees)
                            /\ SameName(c, Placeholder(i, j))

\* C10: every node of the graph has an id, no two nodes share one, an id
\* once assigned never changes, and each insert hands out the next values
\* of the counter in increasing order: the unmatched placeholders in the
\* order of the sources list, then the inserted node.
C10_Ids ==
    /\ \A n \in Reach : nodes[n].id # NoId
    /\ \A a, b \in GraphNodes : nodes[a].id = nodes[b].id => a = b
    /\ \A n \in GraphNodes : nodes[n].id < next_id

C10_Step ==
    LET p == Len(nodes) + 1
        new == {n \in 1..Len(nodes') :
                  /\ nodes'[n].id # NoId
                  /\ (n > Len(nodes) \/ nodes[n].id = NoId)}
    IN  /\ \A n \in 1..Len(nodes) : nodes[n].id # NoId => nodes'[n].id = nodes[n].id
        /\ {nodes'[n].id : n \in new} = next_id .. (next_id' - 1)
        /\ Cardinality(new) = next_id' - next_id
        /\ \A a, b \in new \ {p} : a < b => nodes'[a].id < nodes'[b].id
        /\ \A a \in new \ {p} : nodes'[a].id < nodes'[p].id
        /\ next_id' >= next_id

C10_IdsStableAndIncreasing == []C10_Ids /\ [][C10_Step]_vars

\* an insert that gave ids to two placeholders and to the inserted node
C10_Witness ==
    \E i \in 1..Len(stmts) :
        /\ Len(stmts[i].tables) >= 2
        /\ \A j \in 1..Len(stmts[i].tables) :
             nodes[StmtNode(i)].sources[j] = Placeholder(i, j)
        /\ i > 1
        /\ nodes[StmtNode(i)].id = nodes[Placeholder(i, 2)].id + 1

\* C11: a node is never deleted. Every node the roots reach before an
\* insert is still reached after it, and a node that the insert removes
\* from the roots is, at the end of that insert, a source of the inserted
\* node, which is a root.
C11_Step ==
    LET p == Len(nodes) + 1
        after == Range(Walk(nodes', trees'))
    IN  Len(nodes') > Len(nodes) =>
          /\ Reach \subseteq after
          /\ \A n \in Range(trees) \ Range(trees') :
                /\ n \in Range(nodes'[p].sources)
                /\ p \in Range(trees')

C11_NeverDeleted == [][C11_Step]_vars

\* two statement nodes left the roots, each for the sources of a later one
C11_Witness ==
    \E i, j \in 1..Len(stmts) :
        /\ i < j
        /\ StmtNode(i) \notin Range(trees)
        /\ StmtNode(i) \in SourcesOf(StmtNode(j))
        /\ StmtNode(j) \notin Range(trees)
        /\ StmtNode(j) \in Reach

\* the nodes below the set S: S and everything at most k sources away
RECURSIVE Below(_, _)
Below(S, k) ==
    LET T == S \cup UNION {SourcesOf(n) : n \in S}
    IN  IF k = 0 \/ T = S THEN S ELSE Below(T, k - 1)

\* C16: after any sequence of inserts, self-reads and mutual reads
\* included, the sources relation has no cycle: no node is below itself,
\* so the walk of the roots is finite.
C16_NoCycle ==
    /\ \A n \in 1..Len(nodes) : n \notin Below(SourcesOf(n), Len(nodes))
    /\ Range(iter_deep(Graph)) \subseteq 1..Len(nodes)

\* a statement that reads its own name, and two that read each other
C16_Witness ==
    \E i, j \in 1..Len(stmts) :
        /\ i < j
        /\ Identity(j) \in Reads(i)
        /\ Identity(i) \in Reads(j)
        /\ Identity(i) # Identity(j)
        /\ \E k \in 1..Len(stmts) : Identity(k) \in Reads(k)

\* C17: insert leaves every node built before the call as it was: name,
\* kind, id, sources and color. Of the nodes of the call, a placeholder
\* that a known node replaced is dropped as it was built, without an id
\* and outside the graph; the others take an id, and the sources list of
\* the inserted node keeps its length and the name at each position.
C17_Step ==
    LET p == Len(nodes) + 1
        tables == stmts'[Len(stmts')].tables
        after == Range(Walk(nodes', trees'))
    IN  Len(nodes') > Len(nodes) =>
          /\ \A n \in 1..Len(nodes) : nodes'[n] = nodes[n]
          /\ Len(nodes'[p].sources) = Len(tables)
          /\ nodes'[p].id # NoId
          /\ \A j \in 1..Len(tables) :
               /\ nodes'[nodes'[p].sources[j]].name = tables[j]
               /\ IF nodes'[p].sources[j] = p + j
                  THEN nodes'[p + j].id # NoId
                  ELSE /\ nodes'[p + j] =
                            DAGNode(tables[j], nodes'[p + j].node_t)
                       /\ p + j \notin after
                       /\ nodes'[p].sources[j] <= Len(nodes)

C17_InsertFrame == [][C17_Step]_vars

\* a placeholder was replaced by a node of an earlier insert and dropped
C17_Witness ==
    \E i \in 1..Len(stmts) : \E j \in 1..Len(stmts[i].tables) :
        /\ nodes[StmtNode(i)].sources[j] < StmtNode(i)
        /\ nodes[Placeholder(i, j)].id = NoId
        /\ Placeholder(i, j) \notin Reach

\* the (dependency name, statement name) pairs the statements declare
DeclaredPairs ==
    UNION {{<<d, Identity(i)>> : d \in Reads(i)} : i \in 1..Len(stmts)}

\* C18: after any sequence of inserts, in any order, the name-level edges
\* of the graph are exactly the declared pairs: merging and root demotion
\* neither lose a declared edge nor add an undeclared one.
C18_EdgesAreDeclared == GraphEdges = DeclaredPairs

\* a statement node was merged into a later statement's sources and a
\* placeholder of that later statement was kept beside it
C18_Witness ==
    \E i, j \in 1..Len(stmts) :
        /\ i < j
        /\ Reads(i) # {}
        /\ StmtNode(i) \in SourcesOf(StmtNode(j))
        /\ \E k \in 1..Len(stmts[j].tables) :
              nodes[StmtNode(j)].sources[k] = Placeholder(j, k)

\* the lines of a kind for a class among the classDef and class lines
LinesFor(lines, kind, class_nm) ==
    {k \in 1..Len(lines) : lines[k].kind = kind /\ lines[k].name = class_nm}

\* a class that holds the id of some node and has no style definition
Unstyled(nc, class_nm) ==
    has_nodes(nc, class_nm) /\ ~has_class_def(colors, class_nm)

\* C12 as stated: for a class that some node uses and that has no style
\* definition, the mm() that __main__ calls writes neither a classDef line
\* nor a class line, and the other classes are rendered.
C12_UnstyledBucketSkipped ==
    pc = "sorted" =>
    \A lines \in {mm_class_lines(Graph, colors)} :
    \A nc \in {node_class(Graph)} :
    \A class_nm \in DOMAIN nc :
        IF Unstyled(nc, class_nm)
        THEN /\ LinesFor(lines, "classDef", class_nm) = {}
             /\ LinesFor(lines, "class", class_nm) = {}
        ELSE has_nodes(nc, class_nm) =>
                /\ LinesFor(lines, "classDef", class_nm) # {}
                /\ LinesFor(lines, "class", class_nm) # {}

\* C12 amended: for a class that some node uses and that has no style
\* definition, the mm() that __main__ calls writes no classDef line but
\* still writes the class line with the ids of the class; every class with
\* a style definition has its classDef line, used or not, and every used
\* class its class line, each once.
C12_UnstyledBucketKeepsClassLine ==
    pc = "sorted" =>
    \A lines \in {mm_class_lines(Graph, colors)} :
    \A nc \in {node_class(Graph)} :
    \A class_nm \in DOMAIN nc :
        /\ Unstyled(nc, class_nm) =>
              /\ LinesFor(lines, "classDef", class_nm) = {}
              /\ LinesFor(lines, "class", class_nm) # {}
        /\ Cardinality(LinesFor(lines, "classDef", class_nm)) =
              (IF has_class_def(colors, class_nm) THEN 1 ELSE 0)
        /\ Cardinality(LinesFor(lines, "class", class_nm)) =
              (IF has_nodes(nc, class_nm) THEN 1 ELSE 0)
        /\ \A k \in LinesFor(lines, "classDef", class_nm) :
              lines[k].style = colors[class_nm]
        /\ \A k \in LinesFor(lines, "class", class_nm) :
              lines[k].ids = nc[class_nm]

\* at the call of mm() a root is colored "s", no style is defined for "s",
\* and another class is both used and styled
C12_Witness ==
    \E nc \in {node_class(Graph)} :
        /\ pc = "sorted"
        /\ "s" \in DOMAIN nc
        /\ Unstyled(nc, "s")
        /\ \E class_nm \in DOMAIN colors : has_nodes(nc, class_nm)

\* a list is in ascending order of the sort key
Ascending(list) ==
    \A i, j \in 1..Len(list) :
        i < j => ~KeyLess(key(nodes[list[j]]), key(nodes[list[i]]))

\* C13: after sort(default_sort_rule) the roots list and the sources list
\* of every node the roots reach, at every depth, are in ascending order
\* of (slen, color or "", name).
C13_SortedAtEveryDepth ==
    pc = "sorted" =>
        /\ Ascending(trees)
        /\ \A n \in Reach : Ascending(nodes[n].sources)

\* C14: after set_node_color_rule(default_color_rule) every node of the
\* graph, root or not, has the color the rule gives it: the lower-cased
\* first part of a dotted name, no color for an undotted one.
C14_EveryNodeColored ==
    pc \in {"colored", "sorted"} =>
        \A n \in Reach : nodes[n].color = callback(nodes[n])

\* the class the priority order of C15 gives node n
PriorityClass(n) ==
    IF nodes[n].color \notin {NoColor, ""} THEN nodes[n].color
    ELSE IF ~NonCTE(n) THEN "cteNode"
    ELSE IF n \in Range(root_nodes(Graph)) THEN "srcNode"
    ELSE IF n \in Range(trees) THEN "endNode"
    ELSE "intNode"

\* C15: the mm() that __main__ calls puts the id of every rendered node
\* in the class that the priority order color, cteNode, srcNode, endNode,
\* intNode gives it and in no other class, and every id of a class is the
\* id of a rendered node.
C15_OneBucketByPriority ==
    pc = "sorted" =>
    \A unq \in {unq_nodes(Graph)} :
    \A nc \in {node_class(Graph)} :
        /\ \A n \in Range(unq) :
             /\ PriorityClass(n) \in DOMAIN nc
             /\ \A class_nm \in DOMAIN nc :
                   nodes[n].id \in Range(nc[class_nm]) <=> class_nm = PriorityClass(n)
        /\ \A class_nm \in DOMAIN nc :
             Range(nc[class_nm]) \subseteq {nodes[n].id : n \in Range(unq)}

\* a colored CTE root, an uncolored CTE, a source node and an intermediate
\* node are rendered together
C15_Witness ==
    LET nc == node_class(Graph)
    IN  /\ pc = "sorted"
        /\ \E n \in Range(trees) : ~NonCTE(n) /\ PriorityClass(n) = "s"
        /\ nc["cteNode"] # <<>>
        /\ nc["srcNode"] # <<>>
        /\ nc["intNode"] # <<>>

\* a call of insert ended in rem_node: the root it found was gone
RemovalFailed == \E t \in Threads : calls[t].step = "failed"

\* statement i was inserted: its insert call returned
Inserted(i) == nodes[StmtNode(i)].id # NoId

\* two inserted statements read the same name, which no statement
\* creates, and each has a node of its own of that name in its sources
OwnNodeEach ==
    \E i, j \in 1..Len(stmts) : \E x \in Reads(i) \cap Reads(j) :
        /\ i # j /\ Inserted(i) /\ Inserted(j)
        /\ \A k \in 1..Len(stmts) : Identity(k) # x
        /\ \E a \in SourcesOf(StmtNode(i)), b \in SourcesOf(StmtNode(j)) :
              nodes[a].name = x /\ nodes[b].name = x /\ a # b

\* C19: with the insert calls serialized, no call ends in a failed root
\* removal and no two statements that read the same never-created name
\* keep a node of their own of that name; these states are reached only
\* when the steps of two calls are interleaved. The second part is stated
\* for the runs whose statements list each table once, never themselves,
\* and have distinct identities.
C19_SerializedReachesNeither ==
    ~overlapped => (~RemovalFailed /\ (CleanLog => ~OwnNodeEach))

\* the states of C19 that interleaved calls reach: a removal that fails,
\* and two statements that each keep their own node of a name
C19_InterleavedRemovalFails == overlapped /\ RemovalFailed

C19_InterleavedOwnNodeEach ==
    /\ overlapped /\ CleanLog /\ OwnNodeEach
    /\ \A i \in 1..Len(stmts) : Len(stmts[i].tables) = 1

\* with the calls serialized no removal fails
C19_SerializedRemovalSucceeds == ~overlapped => ~RemovalFailed

====
